---------------------------- MODULE Spec2Model ----------------------------
(***************************************************************************)
(* Model of app_olist_segmentation.py: one Streamlit script run after      *)
(* another over a memoized loader (load_data), the sidebar thresholds and  *)
(* the row-wise quadrant classification (classify).                        *)
(*                                                                         *)
(* Data frames are sequences of records.  Keys (order_id, customer_id,     *)
(* customer_unique_id, product_id) are small integers so that the sorted   *)
(* group keys of pandas' groupby can be computed.  Timestamps are whole    *)
(* hours.  Money is kept in whole currency units; a mean or a quantile is  *)
(* an exact fraction [num, den], and 0/0 is its NaN.  A missing number or  *)
(* timestamp is a reserved integer that no column holds, a missing label   *)
(* a reserved string.  pd.to_datetime (lines 59-60) leaves a timestamp a   *)
(* timestamp and a missing one NaT; the files are taken to hold timestamps. *)
(* The report of lines 132-300 is one step; it adds the coordinates of     *)
(* lines 193-194 to the run's per-state table.  Coordinates are in         *)
(* hundredths of a degree.                                                 *)
(***************************************************************************)
EXTENDS Integers, Sequences, FiniteSets, TLC

VARIABLES
    fs,            \* per candidate directory: the set of files it holds
    disk,          \* the content of the five parquet files
    pc,            \* position of the current script run
    base_path,     \* load_data local: None or the chosen candidate
    probes,        \* candidates tested with os.path.exists, in order
    reads,         \* <<candidate, file>> of each pd.read_parquet that returned
    orders,        \* load_data local: the orders frame
    frames,        \* load_data locals: items, reviews, customers, products
    df,            \* load_data local: the merged order-level frame
    cust_master,   \* load_data local: one row per customer_unique_id
    m_thresholds,  \* load_data local: the two Monetary cut-points
    cache,         \* st.cache_data memo of load_data: <<>> or <<cust_master, state_agg>>
    loads,         \* how many times the body of load_data has run
    df_cust,       \* script global: this run's copy of the aggregate
    df_state,      \* script global: this run's copy of the per-state table
    widget,        \* slider values kept by the session between runs
    m_standard,    \* script global: Monetary threshold of this run
    s_standard,    \* script global: Satisfaction threshold of this run, in tenths
    error,         \* what this run reported: none, not_found, integrity, uncaught
    rendered       \* the elements this run has put on the page

vars == <<fs, disk, pc, base_path, probes, reads, orders, frames, df,
          cust_master, m_thresholds, cache, loads, df_cust, df_state,
          widget, m_standard, s_standard, error, rendered>>

NaN == -999999          \* a missing number
NaT == -999999          \* a missing timestamp
NoLabel == "NaN"        \* a missing category label
None == "None"          \* base_path before the search
Unset == -1             \* a slider value not yet given

(***************************************************************************)
(* Generic sequence helpers.                                               *)
(***************************************************************************)
RECURSIVE SumSeq(_)
SumSeq(s) == IF s = <<>> THEN 0 ELSE Head(s) + SumSeq(Tail(s))

RECURSIVE Flatten(_)
Flatten(ss) == IF ss = <<>> THEN <<>> ELSE Head(ss) \o Flatten(Tail(ss))

RECURSIVE SortedSeq(_)
SortedSeq(S) ==
    IF S = {} THEN <<>>
    ELSE LET lo == CHOOSE x \in S : \A y \in S : x <= y
         IN  <<lo>> \o SortedSeq(S \ {lo})

RECURSIVE InsertSorted(_, _)
InsertSorted(x, s) ==
    IF s = <<>> THEN <<x>>
    ELSE IF x <= Head(s) THEN <<x>> \o s
    ELSE <<Head(s)>> \o InsertSorted(x, Tail(s))

RECURSIVE SortValues(_)
SortValues(s) == IF s = <<>> THEN <<>> ELSE InsertSorted(Head(s), SortValues(Tail(s)))

Column(frame, col) == [i \in 1..Len(frame) |-> frame[i][col]]

KeysOf(frame, col) == {frame[i][col] : i \in 1..Len(frame)}

RowsWith(frame, col, k) == SelectSeq(frame, LAMBDA r : r[col] = k)

(***************************************************************************)
(* Exact fractions [num, den] (den > 0) for means and quantiles.           *)
(***************************************************************************)
Frac(n, d) == [num |-> n, den |-> d]

NaNFrac == Frac(0, 0)

IsNaN(q) == q.den = 0

\* x >= q for an integer x and a fraction q; a comparison with NaN is False.
IntGeFrac(x, q) == IF IsNaN(q) THEN FALSE ELSE x * q.den >= q.num

FracLeq(p, q) == p.num * q.den <= q.num * p.den

\* Series.quantile(q) with q = qn/qd, numpy's default linear interpolation:
\* the virtual index (n-1)*q, and the two neighbours weighted by its
\* fractional part.  The quantile of an empty series is NaN.
Quantile(vals, qn, qd) ==
    IF Len(vals) = 0 THEN NaNFrac
    ELSE LET s   == SortValues(vals)
             n   == Len(s)
             pos == (n - 1) * qn
             lo  == pos \div qd
             fr  == pos % qd
             hi  == IF lo + 1 < n THEN lo + 1 ELSE lo
         IN  Frac(s[lo + 1] * qd + (s[hi + 1] - s[lo + 1]) * fr, qd)

\* Series.median(): the mean of the two middle values, the 0.5 quantile.
Median(vals) == Quantile(vals, 1, 2)

\* int(x) of a non-negative float truncates (int(nan) raises ValueError).
IntOf(q) == q.num \div q.den

(***************************************************************************)
(* Delay Calculator, load_data lines 59-62.                                *)
(***************************************************************************)
HoursPerDay == 24

NoClip(d) == d

\* Series.clip(lower=0); NaN stays NaN.
ClipLower0(d) == IF d = NaN THEN NaN ELSE IF d < 0 THEN 0 ELSE d

\* (delivered - estimated).dt.days: the days component of the timedelta is
\* the floor of the difference in days; NaT gives NaN.
TimedeltaDays(delivered, estimated) ==
    IF delivered = NaT \/ estimated = NaT THEN NaN
    ELSE (delivered - estimated) \div HoursPerDay

delay_days(o) ==
    ClipLower0(TimedeltaDays(o.order_delivered_customer_date,
                             o.order_estimated_delivery_date))

WithDelay(frame) ==
    [i \in 1..Len(frame) |-> frame[i] @@ [delay_days |-> delay_days(frame[i])]]

(***************************************************************************)
(* Joiner/Aggregator, load_data lines 65-89.                               *)
(***************************************************************************)
\* The values of a numeric column that are not NaN.
NotNaN(col) == SelectSeq(col, LAMBDA v : v # NaN)

\* Series.sum(): NaN is skipped.
Sum(col) == SumSeq(NotNaN(col))

Project(frame, cols) ==
    [i \in 1..Len(frame) |-> [c \in cols |-> frame[i][c]]]

\* DataFrame.merge(right, on=key), how='inner': the rows of left in order,
\* each paired with every row of right that has the same key.
MergeInner(left, right, key) ==
    Flatten([i \in 1..Len(left) |->
        LET m == RowsWith(right, key, left[i][key])
        IN  [j \in 1..Len(m) |-> left[i] @@ m[j]]])

\* how='left': a left row with no partner is kept, the right columns
\* missing (missing: the right columns, each with its missing value).
MergeLeft(left, right, key, missing) ==
    Flatten([i \in 1..Len(left) |->
        LET m == RowsWith(right, key, left[i][key])
        IN  IF Len(m) = 0
            THEN <<left[i] @@ missing>>
            ELSE [j \in 1..Len(m) |-> left[i] @@ m[j]]])

\* line 65
order_items(items, products) ==
    MergeLeft(items,
              Project(products, {"product_id", "product_category_name_english"}),
              "product_id", [product_category_name_english |-> NoLabel])

\* lines 66-69: groupby('order_id'), keys sorted; price summed, the category
\* of the group's first row (a group is never empty).
order_summary(oi) ==
    LET keys == SortedSeq(KeysOf(oi, "order_id"))
    IN  [k \in 1..Len(keys) |->
            LET g == RowsWith(oi, "order_id", keys[k])
            IN  [order_id |-> keys[k],
                 price |-> Sum(Column(g, "price")),
                 product_category_name_english |->
                     g[1].product_category_name_english]]

MergeReviewsLeft(frame, reviews) ==
    MergeLeft(frame, Project(reviews, {"order_id", "review_score"}), "order_id",
              [review_score |-> NaN])

\* line 73
MergeReviews(frame, reviews) ==
    MergeInner(frame, Project(reviews, {"order_id", "review_score"}), "order_id")

\* line 74
MergeSummary(frame, summary) == MergeInner(frame, summary, "order_id")

\* lines 72-74
Merged(ords, fr) ==
    LET withCustomer ==
            MergeInner(ords,
                       Project(fr.customers,
                               {"customer_id", "customer_unique_id", "customer_state"}),
                       "customer_id")
        withReview == MergeReviews(withCustomer, fr.reviews)
    IN  MergeSummary(withReview, order_summary(order_items(fr.items, fr.products)))

\* Series.value_counts(): a missing label is not counted.
Counted(col) == SelectSeq(col, LAMBDA v : v # NoLabel)

CountOf(col, v) == Len(SelectSeq(col, LAMBDA w : w = v))

FirstAt(col, v) == CHOOSE i \in 1..Len(col) : col[i] = v /\ \A j \in 1..(i - 1) : col[j] # v

IndexError == "IndexError"

\* value_counts().index[0]: the most frequent value, among equally frequent
\* ones the one met first; on an all-NaN column index[0] raises IndexError.
ValueCountsIndex0(col) ==
    LET c == Counted(col)
    IN  IF Len(c) = 0 THEN IndexError
        ELSE CHOOSE v \in {c[i] : i \in 1..Len(c)} :
                \A w \in {c[i] : i \in 1..Len(c)} :
                    \/ CountOf(c, v) > CountOf(c, w)
                    \/ CountOf(c, v) = CountOf(c, w) /\ FirstAt(c, v) <= FirstAt(c, w)

\* Series.mean(): NaN is skipped; the mean of nothing is NaN.
Mean(col) ==
    LET c == NotNaN(col)
    IN  IF Len(c) = 0 THEN NaNFrac ELSE Frac(SumSeq(c), Len(c))

\* lines 77-89: groupby('customer_unique_id'), keys sorted.
CustMaster(frame) ==
    LET keys == SortedSeq(KeysOf(frame, "customer_unique_id"))
    IN  [k \in 1..Len(keys) |->
            LET g == RowsWith(frame, "customer_unique_id", keys[k])
            IN  [customer_unique_id |-> keys[k],
                 Satisfaction |-> Mean(Column(g, "review_score")),
                 Monetary |-> Sum(Column(g, "price")),
                 Frequency |-> Cardinality(KeysOf(g, "order_id")),
                 Avg_Delay |-> Mean(Column(g, "delay_days")),
                 Primary_Category |->
                     ValueCountsIndex0(Column(g, "product_category_name_english"))]]

\* The aggregation lambda of line 82 raised for some group.
AggRaises(frame) ==
    \E u \in KeysOf(frame, "customer_unique_id") :
        ValueCountsIndex0(Column(RowsWith(frame, "customer_unique_id", u),
                                 "product_category_name_english")) = IndexError

(***************************************************************************)
(* Grader, load_data lines 92-97.                                          *)
(***************************************************************************)
MThresholds(master) ==
    <<Quantile(Column(master, "Monetary"), 7, 10),
      Quantile(Column(master, "Monetary"), 9, 10)>>

rfm_grade_swapped(m, th) ==
    IF IntGeFrac(m, th[1]) THEN "VIP"
    ELSE IF IntGeFrac(m, th[2]) THEN "Loyal"
    ELSE "General"

rfm_grade(m, th) ==
    IF IntGeFrac(m, th[2]) THEN "VIP"
    ELSE IF IntGeFrac(m, th[1]) THEN "Loyal"
    ELSE "General"

Graded(master, th) ==
    [i \in 1..Len(master) |->
        master[i] @@ [RFM_Grade |-> rfm_grade(master[i].Monetary, th)]]

\* customer_state values, numbered in the alphabetical order groupby sorts by.
AL == 1
SP == 2

\* lines 100-108: groupby('customer_state'), keys sorted.
state_agg(frame) ==
    LET keys == SortedSeq(KeysOf(frame, "customer_state"))
    IN  [k \in 1..Len(keys) |->
            LET g == RowsWith(frame, "customer_state", keys[k])
            IN  [customer_state |-> keys[k],
                 Avg_Delay |-> Mean(Column(g, "delay_days")),
                 Avg_Review |-> Mean(Column(g, "review_score")),
                 Total_Sales |-> Sum(Column(g, "price"))]]

(***************************************************************************)
(* Segmenter, lines 124-130.                                               *)
(***************************************************************************)
SatGe(sat, s10) == IF IsNaN(sat) THEN FALSE ELSE sat.num * 10 >= s10 * sat.den

classify_flipped(row, m, s10) ==
    IF row.Monetary <= m
    THEN (IF SatGe(row.Satisfaction, s10) THEN "Core" ELSE "ChurnRisk")
    ELSE (IF SatGe(row.Satisfaction, s10) THEN "Potential" ELSE "General")

classify_strict(row, m, s10) ==
    IF row.Monetary > m
    THEN (IF SatGe(row.Satisfaction, s10) THEN "Core" ELSE "ChurnRisk")
    ELSE (IF SatGe(row.Satisfaction, s10) THEN "Potential" ELSE "General")

classify(row, m, s10) ==
    IF row.Monetary >= m
    THEN (IF SatGe(row.Satisfaction, s10) THEN "Core" ELSE "ChurnRisk")
    ELSE (IF SatGe(row.Satisfaction, s10) THEN "Potential" ELSE "General")

Segmented(frame, m, s10) ==
    [i \in 1..Len(frame) |-> frame[i] @@ [Segment |-> classify(frame[i], m, s10)]]

(***************************************************************************)
(* Loader, load_data lines 32-56.                                          *)
(***************************************************************************)
\* line 33-37, in priority order
search_paths == <<"current_dir", "DATA_PARQUET", "fallback">>

\* line 40
target_check_file == "orders"

\* lines 52-56, in reading order
FileNames == <<"orders", "items", "reviews", "customers", "products">>

HasMarker(fsys, i) == target_check_file \in fsys[search_paths[i]]

LastHit(fsys) ==
    IF \E i \in 1..Len(search_paths) : HasMarker(fsys, i)
    THEN CHOOSE i \in 1..Len(search_paths) :
            HasMarker(fsys, i) /\ \A j \in (i + 1)..Len(search_paths) : ~HasMarker(fsys, j)
    ELSE 0

\* lines 42-45: the index of the first candidate holding the marker file,
\* where the loop breaks; 0 when the loop runs out.
FirstHit(fsys) ==
    IF \E i \in 1..Len(search_paths) : HasMarker(fsys, i)
    THEN CHOOSE i \in 1..Len(search_paths) :
            HasMarker(fsys, i) /\ \A j \in 1..(i - 1) : ~HasMarker(fsys, j)
    ELSE 0

\* The candidates the loop of lines 42-45 tests before it ends.
Probed(fsys) ==
    IF FirstHit(fsys) = 0 THEN search_paths
    ELSE SubSeq(search_paths, 1, FirstHit(fsys))

\* How many of the five reads of lines 52-56 return before one raises
\* FileNotFoundError.
ReadsDone(files) ==
    IF \A k \in 1..Len(FileNames) : FileNames[k] \in files THEN Len(FileNames)
    ELSE (CHOOSE k \in 1..Len(FileNames) :
            FileNames[k] \notin files /\ \A j \in 1..(k - 1) : FileNames[j] \in files) - 1

(***************************************************************************)
(* st.cache_data (line 30): load_data takes no argument, so the memo has   *)
(* one entry; a hit returns a copy of the stored value.                    *)
(***************************************************************************)
CacheNeverHits == FALSE

CacheHit == cache # <<>>

(***************************************************************************)
(* Sidebar, lines 119-121.                                                 *)
(***************************************************************************)
\* line 120: the upper end of the Monetary slider
SliderMax(frame) == IntOf(Quantile(Column(frame, "Monetary"), 19, 20))

\* line 120: the value of the Monetary slider before the user moves it
SliderDefault(frame) == IntOf(Median(Column(frame, "Monetary")))

\* line 121: 3.8, in tenths
SDefault == 38
SMin == 10
SMax == 50

(***************************************************************************)
(* The script, one action per step of a run.                               *)
(***************************************************************************)
NoFrames == [items |-> <<>>, reviews |-> <<>>, customers |-> <<>>, products |-> <<>>]

NoWidget == [m |-> Unset, s |-> Unset]

\* lines 9-27: page configuration and the style sheet
PageConfig ==
    /\ pc = "config"
    /\ rendered' = rendered \cup {"style"}
    /\ pc' = "load"
    /\ UNCHANGED <<fs, disk, base_path, probes, reads, orders, frames, df,
                   cust_master, m_thresholds, cache, loads, df_cust, df_state, widget,
                   m_standard, s_standard, error>>

\* line 113 on a cache hit: the body of load_data does not run
LoadCached ==
    /\ pc = "load"
    /\ CacheHit
    /\ df_cust' = cache[1]
    /\ df_state' = cache[2]
    /\ pc' = "sidebar"
    /\ UNCHANGED <<fs, disk, base_path, probes, reads, orders, frames, df,
                   cust_master, m_thresholds, cache, loads, widget,
                   m_standard, s_standard, error, rendered>>

\* lines 32-49 on a cache miss: search the candidates; st.error and st.stop
\* when none holds the marker file
FindBasePath ==
    /\ pc = "load"
    /\ ~CacheHit
    /\ loads' = loads + 1
    /\ probes' = Probed(fs)
    /\ IF FirstHit(fs) = 0
       THEN /\ base_path' = None
            /\ error' = "not_found"
            /\ rendered' = rendered \cup {"error"}
            /\ pc' = "stopped"
       ELSE /\ base_path' = search_paths[FirstHit(fs)]
            /\ pc' = "read"
            /\ UNCHANGED <<error, rendered>>
    /\ UNCHANGED <<fs, disk, reads, orders, frames, df, cust_master,
                   m_thresholds, cache, df_cust, df_state, widget, m_standard,
                   s_standard>>

\* lines 52-56: five reads from base_path; a missing file raises, the
\* handler of lines 114-116 reports it and stops the run
ReadTables ==
    /\ pc = "read"
    /\ LET n == ReadsDone(fs[base_path])
       IN  /\ reads' = [k \in 1..n |-> <<base_path, FileNames[k]>>]
           /\ IF n = Len(FileNames)
              THEN /\ orders' = disk.orders
                   /\ frames' = [items |-> disk.items, reviews |-> disk.reviews,
                                 customers |-> disk.customers,
                                 products |-> disk.products]
                   /\ pc' = "delay"
                   /\ UNCHANGED <<error, rendered>>
              ELSE /\ error' = "integrity"
                   /\ rendered' = rendered \cup {"error"}
                   /\ pc' = "stopped"
                   /\ UNCHANGED <<orders, frames>>
    /\ UNCHANGED <<fs, disk, base_path, probes, df, cust_master, m_thresholds,
                   cache, loads, df_cust, df_state, widget, m_standard, s_standard>>

\* lines 59-62
ComputeDelay ==
    /\ pc = "delay"
    /\ orders' = WithDelay(orders)
    /\ pc' = "join"
    /\ UNCHANGED <<fs, disk, base_path, probes, reads, frames, df, cust_master,
                   m_thresholds, cache, loads, df_cust, df_state, widget, m_standard,
                   s_standard, error, rendered>>

\* lines 65-89; an IndexError of the lambda of line 82 leaves load_data and is
\* reported by the handler of lines 114-116
JoinAggregate ==
    /\ pc = "join"
    /\ df' = Merged(orders, frames)
    /\ IF AggRaises(df')
       THEN /\ error' = "integrity"
            /\ rendered' = rendered \cup {"error"}
            /\ pc' = "stopped"
            /\ UNCHANGED cust_master
       ELSE /\ cust_master' = CustMaster(df')
            /\ pc' = "grade"
            /\ UNCHANGED <<error, rendered>>
    /\ UNCHANGED <<fs, disk, base_path, probes, reads, orders, frames,
                   m_thresholds, cache, loads, df_cust, df_state, widget, m_standard,
                   s_standard>>

\* lines 92-97 and the return of line 110: the result is stored in the memo
\* and the caller gets a copy
Grade ==
    /\ pc = "grade"
    /\ m_thresholds' = MThresholds(cust_master)
    /\ cust_master' = Graded(cust_master, m_thresholds')
    /\ cache' = <<cust_master', state_agg(df)>>
    /\ df_cust' = cust_master'
    /\ df_state' = state_agg(df)
    /\ pc' = "sidebar"
    /\ UNCHANGED <<fs, disk, base_path, probes, reads, orders, frames, df,
                   loads, widget, m_standard, s_standard, error, rendered>>

\* lines 119-121: int() of the 0.95 quantile and of the median; on an empty
\* aggregate both are NaN and int raises outside any handler
Sidebar ==
    /\ pc = "sidebar"
    /\ IF IsNaN(Quantile(Column(df_cust, "Monetary"), 19, 20))
       THEN /\ error' = "uncaught"
            /\ rendered' = rendered \cup {"sidebar_header", "exception"}
            /\ pc' = "crashed"
            /\ UNCHANGED <<m_standard, s_standard>>
       ELSE /\ m_standard' = IF widget.m = Unset THEN SliderDefault(df_cust)
                                                ELSE widget.m
            /\ s_standard' = IF widget.s = Unset THEN SDefault ELSE widget.s
            /\ rendered' = rendered \cup {"sidebar_header", "sliders"}
            /\ pc' = "classify"
            /\ UNCHANGED error
    /\ UNCHANGED <<fs, disk, base_path, probes, reads, orders, frames, df,
                   cust_master, m_thresholds, cache, loads, df_cust, df_state, widget>>

\* line 130
Classify ==
    /\ pc = "classify"
    /\ df_cust' = Segmented(df_cust, m_standard, s_standard)
    /\ pc' = "render"
    /\ UNCHANGED <<fs, disk, base_path, probes, reads, orders, frames, df,
                   cust_master, m_thresholds, cache, loads, df_state, widget,
                   m_standard, s_standard, error, rendered>>

\* lines 183-191, the entries of the states of the input domain
state_coords == [x \in {AL, SP} |-> IF x = AL THEN <<-957, -3678>>
                                              ELSE <<-2355, -4663>>]

\* state_coords.get(x, [0,0])
CoordsOf(x) == IF x \in DOMAIN state_coords THEN state_coords[x] ELSE <<0, 0>>

\* lines 193-194
WithCoords(frame) ==
    [i \in 1..Len(frame) |->
        frame[i] @@ [lat |-> CoordsOf(frame[i].customer_state)[1],
                     lon |-> CoordsOf(frame[i].customer_state)[2]]]

\* lines 132-300: the report; it leaves df_state with the columns lat and lon
Render ==
    /\ pc = "render"
    /\ df_state' = WithCoords(df_state)
    /\ rendered' = rendered \cup {"dashboard"}
    /\ pc' = "done"
    /\ UNCHANGED <<fs, disk, base_path, probes, reads, orders, frames, df,
                   cust_master, m_thresholds, cache, loads, df_cust, widget,
                   m_standard, s_standard, error>>

\* The sliders are on the page from line 121 on; moving one abandons the run
\* wherever it is.
SlidersShown == pc \in {"classify", "render", "done"}

\* A slider moved: the session keeps the new value and the script runs again
\* from its first line with fresh globals.
Rerun(m, s) ==
    /\ widget' = [m |-> m, s |-> s]
    /\ pc' = "config"
    /\ base_path' = None
    /\ probes' = <<>>
    /\ reads' = <<>>
    /\ orders' = <<>>
    /\ frames' = NoFrames
    /\ df' = <<>>
    /\ cust_master' = <<>>
    /\ m_thresholds' = <<>>
    /\ df_cust' = <<>>
    /\ df_state' = <<>>
    /\ m_standard' = Unset
    /\ s_standard' = Unset
    /\ error' = "none"
    /\ rendered' = {}
    /\ UNCHANGED <<fs, disk, cache, loads>>

\* Sample positions of the Monetary slider (its range is 0..SliderMax, step 1).
MSamples == {0, 100, 200, 300, 500, 600}

\* Sample positions of the Satisfaction slider (1.0 to 5.0, step 0.1), in tenths.
SSamples == {35, 38, 50}

ChangeMonetaryThreshold ==
    /\ SlidersShown
    /\ \E m \in MSamples :
        /\ m <= SliderMax(df_cust)
        /\ m # m_standard
        /\ Rerun(m, s_standard)

ChangeSatisfactionThreshold ==
    /\ SlidersShown
    /\ \E s \in SSamples :
        /\ SMin <= s /\ s <= SMax
        /\ s # s_standard
        /\ Rerun(m_standard, s)

(***************************************************************************)
(* Input domains.                                                          *)
(***************************************************************************)
RECURSIVE SeqsOfLen(_, _)
SeqsOfLen(S, n) ==
    IF n = 0 THEN {<<>>}
    ELSE {Append(q, x) : q \in SeqsOfLen(S, n - 1), x \in S}

SeqsUpTo(S, n) == UNION {SeqsOfLen(S, k) : k \in 0..n}

MaxItems == 2      \* rows of the items file
MaxReviews == 2    \* rows of the reviews file

OrderIds == {1, 2}
UniqueIds == {1, 2}
ProductIds == {1, 2}
Prices == {100, 200}
ReviewScores == {2, 5}

\* customer_id is the per-order identity: order o was placed as customer 10 + o.
CustomerIdOf(o) == 10 + o

\* Order 1 arrives 52 hours late, order 2 arrives 18 hours early.
OrdersFile ==
    <<[order_id |-> 1, customer_id |-> CustomerIdOf(1),
       order_delivered_customer_date |-> 100, order_estimated_delivery_date |-> 48],
      [order_id |-> 2, customer_id |-> CustomerIdOf(2),
       order_delivered_customer_date |-> 30, order_estimated_delivery_date |-> 48]>>

\* Product 1 has a category; product 2 is either absent from the products
\* file or listed with a null category.
Product1 == [product_id |-> 1, product_category_name_english |-> "housewares"]
Product2Null == [product_id |-> 2, product_category_name_english |-> NoLabel]
ProductsFiles == {<<Product1>>, <<Product1, Product2Null>>}

\* The first order belongs to person 1, the second to person 1 or 2.
CustomersFiles ==
    {<<[customer_id |-> CustomerIdOf(1), customer_unique_id |-> 1,
        customer_state |-> SP],
       [customer_id |-> CustomerIdOf(2), customer_unique_id |-> u,
        customer_state |-> AL]>> : u \in UniqueIds}

ItemRows(o) == {[order_id |-> o, product_id |-> p, price |-> c] :
                    p \in ProductIds, c \in Prices}

ReviewRows(o) == {[order_id |-> o, review_score |-> s] : s \in ReviewScores}

NonDecreasing(rows, col) ==
    \A i \in 1..(Len(rows) - 1) : rows[i][col] <= rows[i + 1][col]

\* Files are listed order by order: the rows of order 1, then those of order 2.
ItemsFiles(n) ==
    {p[1] \o p[2] :
        p \in {q \in SeqsUpTo(ItemRows(1), n) \X SeqsUpTo(ItemRows(2), n) :
                    Len(q[1]) + Len(q[2]) <= n}}

\* The rows of one order by ascending score: the order of the review rows of
\* an order reaches no result (a mean, a sum, a distinct count).
ReviewsFiles(n) ==
    {p[1] \o p[2] :
        p \in {q \in SeqsUpTo(ReviewRows(1), n) \X SeqsUpTo(ReviewRows(2), n) :
                    /\ Len(q[1]) + Len(q[2]) <= n
                    /\ NonDecreasing(q[1], "review_score")
                    /\ NonDecreasing(q[2], "review_score")}}

Disks(nItems, nReviews) ==
    [orders : {OrdersFile}, items : ItemsFiles(nItems),
     reviews : ReviewsFiles(nReviews), customers : CustomersFiles,
     products : ProductsFiles]

\* What a candidate directory may hold: nothing, the marker file alone, all
\* five files, or all but the marker file.
AllFiles == {FileNames[k] : k \in 1..Len(FileNames)}
DirContents == {{}, {target_check_file}, AllFiles, AllFiles \ {target_check_file}}
FsConfigs == [{search_paths[i] : i \in 1..Len(search_paths)} -> DirContents]

\* The data sits beside the script.
GoodFs == [d \in {search_paths[i] : i \in 1..Len(search_paths)} |->
              IF d = search_paths[1] THEN AllFiles ELSE {}]

\* One fixed data set: two persons with one order each, three items, two reviews.
SampleDisk ==
    [orders |-> OrdersFile,
     items |-> <<[order_id |-> 1, product_id |-> 1, price |-> 100],
                 [order_id |-> 1, product_id |-> 2, price |-> 200],
                 [order_id |-> 2, product_id |-> 1, price |-> 200]>>,
     reviews |-> <<[order_id |-> 1, review_score |-> 5],
                   [order_id |-> 2, review_score |-> 2]>>,
     customers |-> <<[customer_id |-> CustomerIdOf(1), customer_unique_id |-> 1,
                      customer_state |-> SP],
                     [customer_id |-> CustomerIdOf(2), customer_unique_id |-> 2,
                      customer_state |-> AL]>>,
     products |-> <<Product1>>]

(***************************************************************************)
(* Spec: a session from its first run on.                                  *)
(***************************************************************************)
FreshRun ==
    /\ base_path = None
    /\ probes = <<>>
    /\ reads = <<>>
    /\ orders = <<>>
    /\ frames = NoFrames
    /\ df = <<>>
    /\ cust_master = <<>>
    /\ m_thresholds = <<>>
    /\ df_cust = <<>>
    /\ df_state = <<>>
    /\ widget = NoWidget
    /\ m_standard = Unset
    /\ s_standard = Unset
    /\ error = "none"
    /\ rendered = {}

Init ==
    /\ \/ fs \in FsConfigs /\ disk = SampleDisk
       \/ fs = GoodFs /\ disk \in Disks(MaxItems, MaxReviews)
    /\ pc = "config"
    /\ cache = <<>>
    /\ loads = 0
    /\ FreshRun

Next ==
    \/ PageConfig
    \/ LoadCached
    \/ FindBasePath
    \/ ReadTables
    \/ ComputeDelay
    \/ JoinAggregate
    \/ Grade
    \/ Sidebar
    \/ Classify
    \/ Render
    \/ ChangeMonetaryThreshold
    \/ ChangeSatisfactionThreshold

Spec == Init /\ [][Next]_vars

(***************************************************************************)
(* SpecDelay: the first run up to the Delay Calculator, over orders with   *)
(* any pair of dates.                                                      *)
(***************************************************************************)
MaxHour == 60      \* the latest timestamp of an order, in hours

DelayDisks ==
    {[SampleDisk EXCEPT
        !.orders = <<[order_id |-> 1, customer_id |-> CustomerIdOf(1),
                      order_delivered_customer_date |-> d,
                      order_estimated_delivery_date |-> e],
                     OrdersFile[2]>>] :
        d \in (0..MaxHour) \cup {NaT}, e \in 0..MaxHour}

InitDelay ==
    /\ fs = GoodFs
    /\ disk \in DelayDisks
    /\ pc = "config"
    /\ cache = <<>>
    /\ loads = 0
    /\ FreshRun

NextDelay ==
    \/ PageConfig
    \/ FindBasePath
    \/ ReadTables
    \/ ComputeDelay

SpecDelay == InitDelay /\ [][NextDelay]_vars

(***************************************************************************)
(* Data sets given purchase by purchase: every purchase is one order with  *)
(* one item of product 1 and one review, delivered on the estimated date;  *)
(* persons of odd number live in SP, the others in AL.                     *)
(***************************************************************************)
Purchase(u, c, sc) == [person |-> u, price |-> c, score |-> sc]

DiskOf(ps) ==
    [orders |-> [o \in 1..Len(ps) |->
                    [order_id |-> o, customer_id |-> CustomerIdOf(o),
                     order_delivered_customer_date |-> 48,
                     order_estimated_delivery_date |-> 48]],
     items |-> [o \in 1..Len(ps) |->
                    [order_id |-> o, product_id |-> 1, price |-> ps[o].price]],
     reviews |-> [o \in 1..Len(ps) |->
                    [order_id |-> o, review_score |-> ps[o].score]],
     customers |-> [o \in 1..Len(ps) |->
                    [customer_id |-> CustomerIdOf(o),
                     customer_unique_id |-> ps[o].person,
                     customer_state |-> IF ps[o].person % 2 = 1 THEN SP ELSE AL]],
     products |-> <<Product1>>]

(***************************************************************************)
(* SpecGrade: the first run up to the Grader, over data sets of up to      *)
(* MaxCustomers persons with one purchase each.                            *)
(***************************************************************************)
MaxCustomers == 5  \* persons of the data set
MaxMonetary == 3   \* the largest price of a purchase

GradeDisks ==
    {DiskOf([i \in 1..Len(ms) |-> Purchase(i, ms[i], 5)]) :
        ms \in SeqsUpTo(1..MaxMonetary, MaxCustomers) \ {<<>>}}

InitGrade ==
    /\ fs = GoodFs
    /\ disk \in GradeDisks
    /\ pc = "config"
    /\ cache = <<>>
    /\ loads = 0
    /\ FreshRun

NextGrade ==
    \/ PageConfig
    \/ FindBasePath
    \/ ReadTables
    \/ ComputeDelay
    \/ JoinAggregate
    \/ Grade

SpecGrade == InitGrade /\ [][NextGrade]_vars

(***************************************************************************)
(* SpecSegment: sessions over data sets of up to MaxRows persons, each     *)
(* with a Monetary of SegMonetary and a Satisfaction of 4.2 (five          *)
(* purchases scored 5, 5, 5, 4, 2) or 3.5 (two purchases scored 5, 2); the *)
(* sliders are moved run after run.                                        *)
(***************************************************************************)
MaxRows == 2       \* persons of the data set

SegMonetary == {100, 500, 700}
SegScores == {<<5, 5, 5, 4, 2>>, <<5, 2>>}

\* The purchases of person u: Monetary m in equal parts, one per score.
PurchasesOf(u, m, scores) ==
    [k \in 1..Len(scores) |-> Purchase(u, m \div Len(scores), scores[k])]

SegmentDisks ==
    {DiskOf(Flatten([i \in 1..Len(rs) |-> PurchasesOf(i, rs[i][1], rs[i][2])])) :
        rs \in SeqsUpTo(SegMonetary \X SegScores, MaxRows) \ {<<>>}}

InitSegment ==
    /\ fs = GoodFs
    /\ disk \in SegmentDisks
    /\ pc = "config"
    /\ cache = <<>>
    /\ loads = 0
    /\ FreshRun

NextSegment ==
    \/ PageConfig
    \/ LoadCached
    \/ FindBasePath
    \/ ReadTables
    \/ ComputeDelay
    \/ JoinAggregate
    \/ Grade
    \/ Sidebar
    \/ Classify
    \/ Render
    \/ ChangeMonetaryThreshold
    \/ ChangeSatisfactionThreshold

SpecSegment == InitSegment /\ [][NextSegment]_vars

(***************************************************************************)
(* Properties.                                                             *)
(***************************************************************************)
HasDelay(o) == "delay_days" \in DOMAIN o

\* C1 (SpecDelay): once the Delay Calculator has run, no order has a negative
\* delay_days: a delivered order that is late has the number of whole days
\* (24 hours) between the estimated and the delivered date, a delivered order
\* that is on time or early has 0, and an order with no delivered date has no
\* number at all (NaN).
C1_DelayNeverNegative ==
    \A i \in 1..Len(orders) :
        HasDelay(orders[i]) =>
            LET d == orders[i].order_delivered_customer_date
                e == orders[i].order_estimated_delivery_date
                v == orders[i].delay_days
            IN  IF d = NaT THEN v = NaN
                ELSE /\ v >= 0
                     /\ d > e => v * HoursPerDay <= d - e /\ d - e < (v + 1) * HoursPerDay
                     /\ d <= e => v = 0

\* An order delivered more than a day early has had its delay computed.
C1_Witness ==
    \E i \in 1..Len(orders) :
        /\ HasDelay(orders[i])
        /\ orders[i].order_delivered_customer_date # NaT
        /\ orders[i].order_delivered_customer_date + HoursPerDay
              < orders[i].order_estimated_delivery_date
        /\ orders[i].delay_days = 0

Labels == {"Core", "ChurnRisk", "Potential", "General"}

Classified == pc \in {"render", "done"}

HighValue(r, m) == r.Monetary >= m

HighSatisfaction(r, s10) == r.Satisfaction.num * 10 >= s10 * r.Satisfaction.den

\* C2 (SpecSegment): after classification every row carries exactly one of
\* the four labels, the one the 2x2 table gives for Monetary >= m_standard
\* and Satisfaction >= s_standard (equality counts as yes); rows with equal
\* Monetary and Satisfaction carry the same label; Monetary 500 and
\* Satisfaction 4.2 under thresholds (300, 3.5) is high value, high
\* satisfaction.
C2_DecisionTable ==
    Classified =>
        /\ Cardinality(Labels) = 4
        /\ \A i \in 1..Len(df_cust) :
            LET r  == df_cust[i]
                hm == HighValue(r, m_standard)
                hs == HighSatisfaction(r, s_standard)
            IN  /\ r.Segment \in Labels
                /\ r.Segment = "Core" <=> hm /\ hs
                /\ r.Segment = "ChurnRisk" <=> hm /\ ~hs
                /\ r.Segment = "Potential" <=> ~hm /\ hs
                /\ r.Segment = "General" <=> ~hm /\ ~hs
                /\ (r.Monetary = 500 /\ r.Satisfaction = Frac(21, 5)
                      /\ m_standard = 300 /\ s_standard = 35) => r.Segment = "Core"
        /\ \A i, j \in 1..Len(df_cust) :
            (df_cust[i].Monetary = df_cust[j].Monetary
               /\ FracLeq(df_cust[i].Satisfaction, df_cust[j].Satisfaction)
               /\ FracLeq(df_cust[j].Satisfaction, df_cust[i].Satisfaction))
            => df_cust[i].Segment = df_cust[j].Segment

\* The scenario of the decision table, and a row exactly on the Monetary
\* threshold, have been classified.
C2_Witness ==
    /\ pc = "done"
    /\ m_standard = 300
    /\ s_standard = 35
    /\ \E i \in 1..Len(df_cust) :
        /\ df_cust[i].Monetary = 500
        /\ df_cust[i].Satisfaction = Frac(21, 5)
        /\ df_cust[i].Segment = "Core"

LowValue(label) == label \in {"Potential", "General"}

SatisfactionHalf(label) == label \in {"Core", "Potential"}

LowCount(frame) == Cardinality({i \in 1..Len(frame) : LowValue(frame[i].Segment)})

\* C3 (SpecSegment): with the table and the satisfaction threshold of the
\* finished run kept, classifying under any higher position m2 of the
\* Monetary slider gives at least as many low-value rows, turns no low-value
\* row into a high-value row and keeps every row's satisfaction half;
\* Monetary 500, Satisfaction 4.2, S 3.5: high value at M 300, low value and
\* high satisfaction at M 600.
C3_RaisingMonetaryThreshold ==
    Classified =>
        \A m2 \in {m \in MSamples : m_standard <= m /\ m <= SliderMax(cache[1])} :
            LET after == Segmented(cache[1], m2, s_standard)
            IN  /\ LowCount(after) >= LowCount(df_cust)
                /\ \A i \in 1..Len(df_cust) :
                    /\ LowValue(df_cust[i].Segment) => LowValue(after[i].Segment)
                    /\ SatisfactionHalf(df_cust[i].Segment)
                          <=> SatisfactionHalf(after[i].Segment)
                    /\ (df_cust[i].Monetary = 500 /\ df_cust[i].Satisfaction = Frac(21, 5)
                          /\ s_standard = 35 /\ m_standard = 300 /\ m2 = 600)
                       => df_cust[i].Segment = "Core" /\ after[i].Segment = "Potential"

\* The slider was raised to 600 and the run reclassified the customer of the
\* scenario as low value, high satisfaction.
C3_Witness ==
    /\ pc = "done"
    /\ widget.m = 600
    /\ m_standard = 600
    /\ s_standard = 35
    /\ \E i \in 1..Len(df_cust) :
        /\ df_cust[i].Monetary = 500
        /\ df_cust[i].Satisfaction = Frac(21, 5)
        /\ df_cust[i].Segment = "Potential"

TierRank(g) == IF g = "VIP" THEN 3 ELSE IF g = "Loyal" THEN 2 ELSE 1

GradesOf(master) == {master[i].RFM_Grade : i \in 1..Len(master)}

\* C4 (SpecGrade): once the Grader has run over a non-empty table, the
\* cut-points satisfy q70 <= q90, a row is VIP iff Monetary >= q90, Loyal iff
\* q70 <= Monetary < q90, General otherwise, and a row with a larger Monetary
\* never has a lower tier.
C4_GradeMonotonic ==
    (m_thresholds # <<>> /\ Len(cust_master) > 0) =>
        LET q70 == m_thresholds[1]
            q90 == m_thresholds[2]
        IN  /\ q70.num * q90.den <= q90.num * q70.den
            /\ \A i \in 1..Len(cust_master) :
                LET r == cust_master[i]
                IN  /\ r.RFM_Grade = "VIP" <=> r.Monetary * q90.den >= q90.num
                    /\ r.RFM_Grade = "Loyal" <=>
                          /\ r.Monetary * q90.den < q90.num
                          /\ r.Monetary * q70.den >= q70.num
                    /\ r.RFM_Grade = "General" <=> r.Monetary * q70.den < q70.num
            /\ \A i, j \in 1..Len(cust_master) :
                cust_master[i].Monetary > cust_master[j].Monetary
                => TierRank(cust_master[i].RFM_Grade) >= TierRank(cust_master[j].RFM_Grade)

\* A graded table that holds all three tiers.
C4_Witness ==
    /\ m_thresholds # <<>>
    /\ GradesOf(cust_master) = {"VIP", "Loyal", "General"}

(***************************************************************************)
(* What the files say about a person, read off the files themselves.       *)
(***************************************************************************)
RowSet(frame) == {frame[i] : i \in 1..Len(frame)}

\* The orders of person u: through the customer_id of each order.
OrdersOfPerson(u) ==
    {o.order_id : o \in {x \in RowSet(disk.orders) :
        \E c \in RowSet(disk.customers) :
            c.customer_id = x.customer_id /\ c.customer_unique_id = u}}

HasReview(o) == \E r \in RowSet(disk.reviews) : r.order_id = o

HasItem(o) == \E it \in RowSet(disk.items) : it.order_id = o

\* The item has a product with a category label in the products file.
Resolvable(it) ==
    \E p \in RowSet(disk.products) :
        p.product_id = it.product_id /\ p.product_category_name_english # NoLabel

HasResolvableItem(o) ==
    \E k \in 1..Len(disk.items) : disk.items[k].order_id = o /\ Resolvable(disk.items[k])

\* The orders of u that have a review and an item.
CompleteOrders(u) == {o \in OrdersOfPerson(u) : HasReview(o) /\ HasItem(o)}

\* The prices of the item rows of the orders in os, each row once.
ItemTotal(os) ==
    SumSeq(Column(SelectSeq(disk.items, LAMBDA it : it.order_id \in os), "price"))

Joined == pc \in {"grade", "sidebar", "classify", "render", "done", "crashed"}

\* C5 (Spec): in the aggregate, Monetary of a person is the total of the item
\* prices of the person's orders, each order's items counted once, and
\* Frequency the number of those orders, over all customer_id of the person
\* and whatever the number of review rows of an order.
C5_MonetaryCountsEachOrderOnce ==
    \A i \in 1..Len(cust_master) :
        LET u == cust_master[i].customer_unique_id
        IN  /\ cust_master[i].Monetary = ItemTotal(CompleteOrders(u))
            /\ cust_master[i].Frequency = Cardinality(CompleteOrders(u))

\* C6 (Spec): every row of the aggregate has Monetary > 0 and Frequency >= 1,
\* and its person has an order with a review and an item in the files.
C6_MonetaryPositive ==
    \A i \in 1..Len(cust_master) :
        /\ cust_master[i].Monetary > 0
        /\ cust_master[i].Frequency >= 1
        /\ CompleteOrders(cust_master[i].customer_unique_id) # {}

\* The aggregate has a row, and a person of the files whose only order has an
\* item and no review is not in it.
C6_Witness ==
    /\ Joined
    /\ Len(cust_master) = 1
    /\ \E o \in OrderIds :
        /\ HasItem(o)
        /\ ~HasReview(o)
        /\ \E u \in UniqueIds :
            /\ OrdersOfPerson(u) = {o}
            /\ u # cust_master[1].customer_unique_id

AllRead == Len(reads) = Len(FileNames)

JoinDone == pc \notin {"config", "load", "read", "delay", "join"}

\* C7 (Spec): once the five files are read the load succeeds, and the
\* aggregate holds only persons with an order that has a review and an item
\* of resolvable category, each with a defined Primary_Category: a person
\* without any is dropped, not reported.
C7_UnresolvedCategoryDropped ==
    (AllRead /\ JoinDone) =>
        /\ error # "integrity"
        /\ \A i \in 1..Len(cust_master) :
            /\ cust_master[i].Primary_Category \notin {NoLabel, IndexError}
            /\ \E o \in CompleteOrders(cust_master[i].customer_unique_id) :
                  HasResolvableItem(o)

StripSegment(r) == [c \in DOMAIN r \ {"Segment"} |-> r[c]]

\* The positions of the two sliders in this run: the session's values, or
\* the defaults while the user has not moved them.
SliderM == IF widget.m = Unset THEN SliderDefault(cache[1]) ELSE widget.m
SliderS == IF widget.s = Unset THEN SDefault ELSE widget.s

C8_Run ==
    /\ loads <= 1
    /\ Classified =>
        /\ cache # <<>>
        /\ Len(df_cust) = Len(cache[1])
        /\ m_standard = SliderM
        /\ s_standard = SliderS
        /\ \A i \in 1..Len(df_cust) :
            /\ StripSegment(df_cust[i]) = cache[1][i]
            /\ df_cust[i].Segment =
                  IF HighValue(cache[1][i], SliderM)
                  THEN (IF HighSatisfaction(cache[1][i], SliderS)
                        THEN "Core" ELSE "ChurnRisk")
                  ELSE (IF HighSatisfaction(cache[1][i], SliderS)
                        THEN "Potential" ELSE "General")

\* C8 (Spec): the body of load_data runs at most once in a session; once the
\* memo is filled no step changes it; and in every run that has classified,
\* the table is the memoized aggregate with only the Segment column added,
\* each Segment being the label of the sliders' current positions.
C8_MemoizedAndCurrent ==
    /\ C8_Run
    /\ [][C8_Run' /\ (cache # <<>> => cache' = cache)]_vars

\* A rerun after the Monetary slider was moved off its default has finished
\* and a customer's label differs from the one the default gives.
C8_Witness ==
    /\ pc = "done"
    /\ loads = 1
    /\ probes = <<>>
    /\ widget.m # Unset
    /\ m_standard # SliderDefault(cache[1])
    /\ \E i \in 1..Len(df_cust) :
        df_cust[i].Segment # classify(cache[1][i], SliderDefault(cache[1]), SDefault)

NoMarkerAnywhere == \A i \in 1..Len(search_paths) : ~HasMarker(fs, i)

Searched == pc \notin {"config", "load"} /\ probes # <<>>

\* C9 (Spec): the candidates are tested in the order of search_paths, each at
\* most once, up to the first that holds the marker file, which becomes
\* base_path; every file is read from base_path, and all five when the load
\* goes on; when no candidate holds the marker file the run reports
\* not_found and stops, having read no file and rendered nothing but the
\* style sheet and the error, and it takes no further step.
C9_SearchOrder ==
    /\ Len(probes) <= Len(search_paths)
    /\ \A i \in 1..Len(probes) : probes[i] = search_paths[i]
    /\ \A i \in 1..(Len(probes) - 1) : ~HasMarker(fs, i)
    /\ base_path # None =>
          /\ base_path = probes[Len(probes)]
          /\ HasMarker(fs, Len(probes))
    /\ \A k \in 1..Len(reads) : reads[k] = <<base_path, FileNames[k]>>
    /\ pc \in {"delay", "join", "grade"} => AllRead
    /\ (Searched /\ NoMarkerAnywhere) => error = "not_found"
    /\ error = "not_found" =>
          /\ NoMarkerAnywhere
          /\ probes = search_paths
          /\ base_path = None
          /\ pc = "stopped"
          /\ reads = <<>>
          /\ rendered \subseteq {"style", "error"}
          /\ "error" \in rendered
          /\ ~ENABLED Next

\* The marker file is in no candidate directory and the run has stopped.
C9_Witness ==
    /\ error = "not_found"
    /\ pc = "stopped"
    /\ Len(probes) = Len(search_paths)

\* C10 (Spec): a run over an empty aggregate ends in an outcome the script
\* reports itself; it does not raise out of the sidebar on int() of an
\* undefined quantile.
C10_EmptyAggregateGuarded ==
    (cache # <<>> /\ Len(cache[1]) = 0 /\ pc \notin {"config", "load", "sidebar"})
    => /\ error # "uncaught"
       /\ "exception" \notin rendered
====
